---- MODULE Spec2Model ----
(***************************************************************************)
(* DEG vs MI visualizer: one rendering pass of main() in                   *)
(* deg_mi_visualizer.py (load, schema check, widgets, threshold filter,    *)
(* five plot builders, summary, preview) and the plot builders of aux.py.  *)
(*                                                                         *)
(* Numbers are integers: MI in slider steps, adjusted p-values in          *)
(* hundredths (0 .. 100 stands for 0.0 .. 1.0).  A missing cell (pandas    *)
(* NaN) is the value NaN; every comparison with it is false, as in pandas. *)
(***************************************************************************)
EXTENDS Integers, Sequences, FiniteSets, TLC

VARIABLES pc, uploaded_file, df, report, widgets, filtered_df, figs,
          summary, preview, raised, performed, call

vars == <<pc, uploaded_file, df, report, widgets, filtered_df, figs,
          summary, preview, raised, performed, call>>

(***************************************************************************)
(* Bounds of the model.                                                    *)
(***************************************************************************)
MaxRows == 2
MaxMissing == 2

(***************************************************************************)
(* Values, cells and tables.                                               *)
(***************************************************************************)
NaN == -1000

PvalOne == 100

GeneNames == <<"A", "Klra4", "B", "C">>

NoGenes == SubSeq(GeneNames, 1, 0)

IsNaN(v) == v = NaN

\* pandas comparisons: False whenever an operand is NaN
Ge(a, b) == ~IsNaN(a) /\ ~IsNaN(b) /\ a >= b
Le(a, b) == ~IsNaN(a) /\ ~IsNaN(b) /\ a <= b
Gt(a, b) == ~IsNaN(a) /\ ~IsNaN(b) /\ a > b
Eq(a, b) == ~IsNaN(a) /\ ~IsNaN(b) /\ a = b

Range(s) == {s[i] : i \in 1..Len(s)}

NoneDF == [isNone |-> TRUE, columns |-> {}, index |-> NoGenes,
           data |-> [g \in {} |-> [c \in {} |-> 0]]]

DataFrame(cols, idx, rows) ==
    [isNone |-> FALSE, columns |-> cols, index |-> idx,
     data |-> [g \in Range(idx) |-> [c \in cols |-> rows[g][c]]]]

\* df[mask]: the rows whose key is in mask, in the original order
Take(t, mask) ==
    LET idx == SelectSeq(t.index, LAMBDA g : g \in mask)
    IN  [isNone |-> FALSE, columns |-> t.columns, index |-> idx,
         data |-> [g \in Range(idx) |-> t.data[g]]]

Column(t, c) == [i \in 1..Len(t.index) |-> t.data[t.index[i]][c]]

(***************************************************************************)
(* Columns of deg_mi_visualizer.py.                                        *)
(***************************************************************************)
required_columns ==
    <<"MI_with_condition", "avg_log2FC", "is_mitocarta", "p_val_adj_log10",
      "Il10", "pct_ratio">>

HoverScatter ==
    {"p_val_adj", "p_val", "is_mitocarta", "Il10", "pct_ratio", "pct.1", "pct.2"}

HoverVolcano ==
    {"p_val_adj", "p_val", "Il10", "pct_ratio", "pct.1", "pct.2"}

BaseColumns == Range(required_columns) \cup HoverScatter

MkRow(mi, p, fc, mito) ==
    [c \in BaseColumns |->
        CASE c = "MI_with_condition" -> mi
          [] c = "p_val_adj" -> p
          [] c = "avg_log2FC" -> fc
          [] c = "is_mitocarta" -> mito
          [] OTHER -> 0]

\* the rows an uploaded workbook may hold
RowVals ==
    {MkRow(1, 0, 1, 1), MkRow(2, PvalOne, -1, 0), MkRow(2, NaN, 2, 2),
     MkRow(NaN, 50, -2, NaN), MkRow(1, 50, 0, 0), MkRow(2, 0, 2, 1)}

ColumnSets ==
    {BaseColumns \ m : m \in {m \in SUBSET BaseColumns : Cardinality(m) <= MaxMissing}}

Workbooks ==
    UNION {{DataFrame(cols, SubSeq(GeneNames, 1, n), rows) :
              cols \in ColumnSets,
              rows \in [Range(SubSeq(GeneNames, 1, n)) -> RowVals]} :
           n \in 0..MaxRows}

NoFile == [kind |-> "none", table |-> NoneDF]

Unreadable == [kind |-> "unreadable", table |-> NoneDF]

Uploads ==
    {NoFile, Unreadable} \cup {[kind |-> "workbook", table |-> t] : t \in Workbooks}

(***************************************************************************)
(* load_data: the table, or an error message and None.                     *)
(***************************************************************************)
\* load_data handing back an empty table after reporting the error
load_data_empty(file) ==
    IF file.kind = "workbook"
    THEN [df |-> file.table, error |-> ""]
    ELSE [df |-> DataFrame({}, NoGenes, [g \in {} |-> [c \in {} |-> 0]]),
          error |-> "Error loading file"]

load_data(file) ==
    IF file.kind = "workbook"
    THEN [df |-> file.table, error |-> ""]
    ELSE [df |-> NoneDF, error |-> "Error loading file"]

(***************************************************************************)
(* Schema check of main.                                                   *)
(***************************************************************************)
\* the schema check stopping at the first absent column
missing_columns_first(t) ==
    LET m == SelectSeq(required_columns, LAMBDA col : col \notin t.columns)
    IN  SubSeq(m, 1, IF Len(m) > 1 THEN 1 ELSE Len(m))

missing_columns(t) ==
    SelectSeq(required_columns, LAMBDA col : col \notin t.columns)

NoReport == [kind |-> "", text |-> "", columns |-> SubSeq(required_columns, 1, 0)]

(***************************************************************************)
(* Sidebar widgets of main.                                                *)
(***************************************************************************)
PvalGrid == {0, 50, PvalOne}

NonNaN(s) == {s[i] : i \in {j \in 1..Len(s) : ~IsNaN(s[j])}}

\* Series.min() and Series.max(): NaN cells are skipped, NaN when none is left
SeriesMin(s) ==
    IF NonNaN(s) = {} THEN NaN
    ELSE CHOOSE v \in NonNaN(s) : \A w \in NonNaN(s) : v <= w

SeriesMax(s) ==
    IF NonNaN(s) = {} THEN NaN
    ELSE CHOOSE v \in NonNaN(s) : \A w \in NonNaN(s) : v >= w

\* st.sidebar.slider(min_value, max_value): the positions the user can pick.
\* With NaN bounds the widget either rejects its arguments or hands back NaN.
SliderOutcomes(lo, hi) ==
    IF IsNaN(lo) \/ IsNaN(hi)
    THEN {[exc |-> "StreamlitAPIException", value |-> NaN],
          [exc |-> "", value |-> NaN]}
    ELSE {[exc |-> "", value |-> v] : v \in lo..hi}

RECURSIVE ListsOver(_, _)
ListsOver(S, n) ==
    IF n = 0 THEN {NoGenes}
    ELSE ListsOver(S, n - 1) \cup
         {Append(l, g) : l \in {k \in ListsOver(S, n - 1) : Len(k) = n - 1},
                         g \in S}

\* st.sidebar.multiselect over available_genes: distinct genes, in pick order
Multiselect(options) ==
    {l \in ListsOver(options, Cardinality(options)) :
        \A i, j \in 1..Len(l) : i # j => l[i] # l[j]}

NoWidgets ==
    [mi_min |-> NaN, pval_max |-> NaN, genes_to_annotate |-> NoGenes,
     show_annotations |-> FALSE]

(***************************************************************************)
(* Threshold filter of main.                                               *)
(***************************************************************************)
\* the filter without its p-value condition
FilterRows_mi_only(t, mi_min, pval_max) ==
    Take(t, {g \in Range(t.index) : Ge(t.data[g]["MI_with_condition"], mi_min)})

\* the filter with an exclusive lower bound on MI
FilterRows_exclusive(t, mi_min, pval_max) ==
    Take(t, {g \in Range(t.index) :
                /\ Gt(t.data[g]["MI_with_condition"], mi_min)
                /\ Le(t.data[g]["p_val_adj"], pval_max)})

FilterRows(t, mi_min, pval_max) ==
    Take(t, {g \in Range(t.index) :
                /\ Ge(t.data[g]["MI_with_condition"], mi_min)
                /\ Le(t.data[g]["p_val_adj"], pval_max)})

\* df[...] of line 287: reading an absent column raises KeyError
ApplyFilters(t, mi_min, pval_max) ==
    IF ~({"MI_with_condition", "p_val_adj"} \subseteq t.columns)
    THEN [exc |-> "KeyError", table |-> NoneDF]
    ELSE [exc |-> "", table |-> FilterRows(t, mi_min, pval_max)]

(***************************************************************************)
(* Figures.  px.scatter raises ValueError when a column it is told to read *)
(* is not in the table; otherwise it yields one point per row.             *)
(***************************************************************************)
NoPoints == [i \in {} |-> [gene |-> "", x |-> 0, y |-> 0, category |-> "", color |-> 0]]

NoAnchors == [i \in {} |-> [x |-> 0, y |-> 0, text |-> ""]]

NoCategory == [i \in {} |-> ""]

NoFig == [isNone |-> TRUE, n |-> 0, points |-> NoPoints, annotations |-> NoAnchors]

\* color is a column name, or "category" with the labels given in category
PxScatter(t, x, y, color, hover, category) ==
    LET read == {x, y} \cup hover \cup (IF color = "category" THEN {} ELSE {color})
    IN  IF ~(read \subseteq t.columns)
        THEN [exc |-> "ValueError", fig |-> NoFig]
        ELSE [exc |-> "",
              fig |-> [isNone |-> FALSE,
                       n |-> Len(t.index),
                       points |-> [i \in 1..Len(t.index) |->
                           [gene |-> t.index[i],
                            x |-> t.data[t.index[i]][x],
                            y |-> t.data[t.index[i]][y],
                            category |-> IF color = "category" THEN category[i] ELSE "",
                            color |-> IF color = "category" THEN 0
                                      ELSE t.data[t.index[i]][color]]],
                       annotations |-> NoAnchors]]

(***************************************************************************)
(* Annotation loop shared by create_mitocarta_scatter and                  *)
(* scatter_highlight: one anchor per requested gene found in df.index.     *)
(***************************************************************************)
RECURSIVE add_annotations_unchecked(_, _, _, _, _)
\* the loop without the membership test: a gene that is not in df.index
\* still gets an anchor, without coordinates
add_annotations_unchecked(t, genes, x, y, i) ==
    IF i > Len(genes) THEN NoAnchors
    ELSE (IF genes[i] \in Range(t.index)
          THEN <<[x |-> t.data[genes[i]][x], y |-> t.data[genes[i]][y],
                  text |-> genes[i]]>>
          ELSE <<[x |-> NaN, y |-> NaN, text |-> genes[i]]>>)
         \o add_annotations_unchecked(t, genes, x, y, i + 1)

RECURSIVE add_annotations(_, _, _, _, _)
add_annotations(t, genes, x, y, i) ==
    IF i > Len(genes) THEN NoAnchors
    ELSE (IF genes[i] \in Range(t.index)
          THEN <<[x |-> t.data[genes[i]][x], y |-> t.data[genes[i]][y],
                  text |-> genes[i]]>>
          ELSE NoAnchors)
         \o add_annotations(t, genes, x, y, i + 1)

NoneList == [isNone |-> TRUE, list |-> NoGenes]

List(l) == [isNone |-> FALSE, list |-> l]

NoResult ==
    [exc |-> "", fig |-> NoFig, categorised |-> FALSE, category |-> NoCategory,
     overlay |-> FALSE, out |-> NoneDF]

(***************************************************************************)
(* deg_mi_visualizer.py: the five plot builders.                           *)
(***************************************************************************)
DefaultGenes == <<"Klra4", "Jchain", "Ighg2b", "Bank1", "mt-Nd3">>

\* Series.map({1: 'MitoCarta', 0: 'Other'}): any other value maps to NaN
MapMitoCarta(v) ==
    IF Eq(v, 1) THEN "MitoCarta" ELSE IF Eq(v, 0) THEN "Other" ELSE "nan"

create_mitocarta_scatter(t, genes_to_annotate) ==
    LET genes == IF genes_to_annotate.isNone THEN DefaultGenes
                 ELSE genes_to_annotate.list
    IN  IF "is_mitocarta" \notin t.columns
        THEN [NoResult EXCEPT !.exc = "KeyError", !.out = t]
        ELSE LET category == [i \in 1..Len(t.index) |->
                                 MapMitoCarta(t.data[t.index[i]]["is_mitocarta"])]
                 sc == PxScatter(t, "MI_with_condition", "avg_log2FC", "category",
                                 HoverScatter, category)
             IN  IF sc.exc # ""
                 THEN [NoResult EXCEPT !.exc = sc.exc, !.categorised = TRUE,
                                       !.category = category, !.out = t]
                 ELSE [NoResult EXCEPT
                         !.categorised = TRUE, !.category = category,
                         !.overlay = TRUE, !.out = t,
                         !.fig = [sc.fig EXCEPT !.annotations =
                                    add_annotations(t, genes, "MI_with_condition",
                                                    "avg_log2FC", 1)]]

create_pct_ratio_scatter(t) ==
    PxScatter(t, "MI_with_condition", "avg_log2FC", "pct_ratio", HoverScatter,
              NoCategory)

create_volcano_mi_scatter(t) ==
    PxScatter(t, "avg_log2FC", "p_val_adj_log10", "MI_with_condition",
              HoverVolcano, NoCategory)

create_volcano_il10_scatter(t) ==
    PxScatter(t, "avg_log2FC", "p_val_adj_log10", "Il10", HoverVolcano, NoCategory)

create_volcano_pct_ratio_scatter(t) ==
    PxScatter(t, "avg_log2FC", "p_val_adj_log10", "pct_ratio", HoverVolcano,
              NoCategory)

\* tabs 1 to 5 of main: the builders run in order, the first exception ends the pass
RECURSIVE RunBuilders(_, _)
RunBuilders(results, i) ==
    IF i > Len(results) THEN [exc |-> "", figs |-> << >>]
    ELSE IF results[i].exc # "" THEN [exc |-> results[i].exc, figs |-> << >>]
    ELSE LET rest == RunBuilders(results, i + 1)
         IN  [exc |-> rest.exc, figs |-> <<results[i].fig>> \o rest.figs]

ScatterPlots(t, genes_to_annotate) ==
    RunBuilders(<<create_mitocarta_scatter(t, List(genes_to_annotate)),
                  create_pct_ratio_scatter(t),
                  create_volcano_mi_scatter(t),
                  create_volcano_il10_scatter(t),
                  create_volcano_pct_ratio_scatter(t)>>, 1)

(***************************************************************************)
(* Summary statistics and preview of main.                                 *)
(***************************************************************************)
PreviewRows == 20

RECURSIVE SeriesSum(_, _)
\* Series.sum(): NaN cells are skipped, 0 for an empty series
SeriesSum(s, i) ==
    IF i > Len(s) THEN 0
    ELSE (IF IsNaN(s[i]) THEN 0 ELSE s[i]) + SeriesSum(s, i + 1)

Ratio(a, b) == [nan |-> FALSE, num |-> a, den |-> b]

NanRatio == [nan |-> TRUE, num |-> 0, den |-> 1]

\* numpy scalar / int: a zero divisor gives nan and a warning, no exception
NumpyDivide(a, b) ==
    IF b = 0 THEN [exc |-> "", value |-> NanRatio]
    ELSE [exc |-> "", value |-> Ratio(a, b)]

\* Python int / int: a zero divisor raises
PythonDivide(a, b) ==
    IF b = 0 THEN [exc |-> "ZeroDivisionError", value |-> NanRatio]
    ELSE [exc |-> "", value |-> Ratio(a, b)]

\* Series.mean(): NaN cells are skipped, nan when none is left
SeriesMean(s) ==
    IF NonNaN(s) = {} THEN NanRatio
    ELSE Ratio(SeriesSum(s, 1), Cardinality({i \in 1..Len(s) : ~IsNaN(s[i])}))

\* Series.median() over the cells that are not NaN, as the sum of the two
\* middle cells over 2
SeriesMedian(s) ==
    LET pos == {i \in 1..Len(s) : ~IsNaN(s[i])}
        k == Cardinality(pos)
        Rank(i) == Cardinality({j \in pos : s[j] < s[i] \/ (s[j] = s[i] /\ j < i)}) + 1
        At(r) == s[CHOOSE i \in pos : Rank(i) = r]
    IN  IF k = 0 THEN NanRatio
        ELSE Ratio(At((k + 1) \div 2) + At((k + 2) \div 2), 2)

NoSummary ==
    [isNone |-> TRUE, mitocarta_count |-> 0, percentage |-> NanRatio,
     mean_mi |-> NanRatio, mean_log2fc |-> NanRatio, median_pval |-> NanRatio]

\* The count is a numpy scalar when the column holds numbers.  A sheet without
\* data rows is read with object columns, whose empty sum is a Python int.
SummaryOutcomes(t, loaded) ==
    LET mitocarta_count == SeriesSum(Column(t, "is_mitocarta"), 1)
        divisions ==
            IF Len(loaded.index) = 0
            THEN {NumpyDivide(mitocarta_count * 100, Len(t.index)),
                  PythonDivide(mitocarta_count * 100, Len(t.index))}
            ELSE {NumpyDivide(mitocarta_count * 100, Len(t.index))}
    IN  {IF d.exc # "" THEN [exc |-> d.exc, summary |-> NoSummary]
         ELSE [exc |-> "",
               summary |-> [isNone |-> FALSE,
                            mitocarta_count |-> mitocarta_count,
                            percentage |-> d.value,
                            mean_mi |-> SeriesMean(Column(t, "MI_with_condition")),
                            mean_log2fc |-> SeriesMean(Column(t, "avg_log2FC")),
                            median_pval |-> SeriesMedian(Column(t, "p_val_adj"))]] :
         d \in divisions}

DataFrameHead(t, n) ==
    LET idx == SubSeq(t.index, 1, IF Len(t.index) < n THEN Len(t.index) ELSE n)
    IN  [isNone |-> FALSE, columns |-> t.columns, index |-> idx,
         data |-> [g \in Range(idx) |-> t.data[g]]]

(***************************************************************************)
(* aux.py: scatter_highlight and create_volcano_pct_ratio_scatter, with    *)
(* the condition-suffixed column names.                                    *)
(***************************************************************************)
HoverN6 ==
    {"p_val_adj_N6", "Il10", "Il6", "pct_ratio_N6", "pct.1_N6", "pct.2_N6"}

AuxColumns ==
    HoverN6 \cup {"MI_with_condition", "avg_log2FC_N6", "p_val_adj_log10_N6",
                  "is_mitocarta", "pct.1", "pct.2"}

AuxRow(mi, fc, mito, pct1, pct2) ==
    [c \in AuxColumns |->
        CASE c = "MI_with_condition" -> mi
          [] c = "avg_log2FC_N6" -> fc
          [] c = "is_mitocarta" -> mito
          [] c = "pct.1" -> pct1
          [] c = "pct.2" -> pct2
          [] OTHER -> 0]

NoneColumn == "<None>"

\* df[name] = series, in place
SetColumn(t, name, s) ==
    [isNone |-> FALSE, columns |-> t.columns \cup {name}, index |-> t.index,
     data |-> [g \in Range(t.index) |->
                 [c \in t.columns \cup {name} |->
                    IF c = name
                    THEN s[CHOOSE i \in 1..Len(t.index) : t.index[i] = g]
                    ELSE t.data[g][c]]]]

\* scatter_highlight writing the category column to df itself (df_plot = df
\* instead of df.copy())
scatter_highlight_inplace(t, genes_to_annotate, binary_column_arg, y, x) ==
    LET binary_column == IF binary_column_arg = NoneColumn THEN "is_mitocarta"
                         ELSE binary_column_arg
        category == [i \in 1..Len(t.index) |->
                        IF binary_column \in t.columns
                           /\ Eq(t.data[t.index[i]][binary_column], 1)
                        THEN binary_column ELSE "Other"]
        df_plot == SetColumn(t, "category", category)
        sc == PxScatter(t, x, y, "category", HoverN6, category)
    IN  IF sc.exc # ""
        THEN [NoResult EXCEPT !.exc = sc.exc, !.categorised = TRUE,
                              !.category = category, !.out = df_plot]
        ELSE IF genes_to_annotate.isNone
        THEN [NoResult EXCEPT !.exc = "TypeError", !.categorised = TRUE,
                              !.category = category, !.overlay = TRUE,
                              !.out = df_plot]
        ELSE [NoResult EXCEPT
                !.categorised = TRUE, !.category = category,
                !.overlay = TRUE, !.out = df_plot,
                !.fig = [sc.fig EXCEPT !.annotations =
                           add_annotations(t, genes_to_annotate.list, x, y, 1)]]

\* the category labels go to df_plot, the copy of line 34; df stays as passed
scatter_highlight(t, genes_to_annotate, binary_column_arg, y, x) ==
    LET binary_column == IF binary_column_arg = NoneColumn THEN "is_mitocarta"
                         ELSE binary_column_arg
        category == [i \in 1..Len(t.index) |->
                        IF binary_column \in t.columns
                           /\ Eq(t.data[t.index[i]][binary_column], 1)
                        THEN binary_column ELSE "Other"]
        sc == PxScatter(t, x, y, "category", HoverN6, category)
    IN  IF sc.exc # ""
        THEN [NoResult EXCEPT !.exc = sc.exc, !.categorised = TRUE,
                              !.category = category, !.out = t]
        ELSE IF genes_to_annotate.isNone
        THEN \* for gene in None
             [NoResult EXCEPT !.exc = "TypeError", !.categorised = TRUE,
                              !.category = category, !.overlay = TRUE,
                              !.out = t]
        ELSE [NoResult EXCEPT
                !.categorised = TRUE, !.category = category,
                !.overlay = TRUE, !.out = t,
                !.fig = [sc.fig EXCEPT !.annotations =
                           add_annotations(t, genes_to_annotate.list, x, y, 1)]]

\* Series < Series, cell by cell
SeriesLt(a, b) == [i \in 1..Len(a) |-> ~IsNaN(a[i]) /\ ~IsNaN(b[i]) /\ a[i] < b[i]]

\* bool(Series): pandas refuses to give a Series a truth value, whatever its length
SeriesBool(s) == [exc |-> "ValueError", value |-> FALSE]

\* the builtin min(a, b): b when b < a is true, else a
BuiltinMin(a, b) ==
    LET lt == SeriesBool(SeriesLt(b, a))
    IN  IF lt.exc # "" THEN [exc |-> lt.exc, value |-> a]
        ELSE [exc |-> "", value |-> IF lt.value THEN b ELSE a]

aux_create_volcano_pct_ratio_scatter(t) ==
    IF ~({"pct.1", "pct.2"} \subseteq t.columns)
    THEN [NoResult EXCEPT !.exc = "KeyError", !.out = t]
    ELSE LET m == BuiltinMin(Column(t, "pct.1"), Column(t, "pct.2"))
         IN  IF m.exc # ""
             THEN [NoResult EXCEPT !.exc = m.exc, !.out = t]
             ELSE LET t2 == SetColumn(t, "min_pct", m.value)
                      sc == PxScatter(t2, "avg_log2FC_N6", "p_val_adj_log10_N6",
                                      "min_pct", HoverN6, NoCategory)
                  IN  [NoResult EXCEPT !.exc = sc.exc, !.fig = sc.fig, !.out = t2]

(***************************************************************************)
(* One rendering pass of main, step by step.                               *)
(***************************************************************************)
NoRaise == [exc |-> "", step |-> ""]

Raise(exc, step) == [exc |-> exc, step |-> step]

NoCall ==
    [fn |-> "", status |-> "", df |-> NoneDF, genes |-> NoneList,
     binary_column |-> "", x |-> "", y |-> "", regulation |-> "",
     mi_min |-> NaN, pval_max |-> NaN,
     result |-> NoResult]

Init ==
    /\ pc = "start"
    /\ uploaded_file = NoFile
    /\ df = NoneDF
    /\ report = NoReport
    /\ widgets = NoWidgets
    /\ filtered_df = NoneDF
    /\ figs = << >>
    /\ summary = NoSummary
    /\ preview = NoneDF
    /\ raised = NoRaise
    /\ performed = << >>
    /\ call = NoCall

\* lines 188-198 and 351-352: the uploader, load_data and the two early exits
Load ==
    /\ pc = "start"
    /\ \E file \in Uploads :
         /\ uploaded_file' = file
         /\ IF file.kind = "none"
            THEN /\ df' = NoneDF
                 /\ report' = [NoReport EXCEPT !.kind = "info",
                                 !.text = "Please upload an Excel file"]
                 /\ performed' = performed
                 /\ pc' = "done"
            ELSE LET r == load_data(file)
                 IN  /\ df' = r.df
                     /\ performed' = Append(performed, "load_data")
                     /\ IF r.df.isNone
                        THEN /\ report' = [NoReport EXCEPT !.kind = "error",
                                             !.text = r.error]
                             /\ pc' = "done"
                        ELSE /\ report' = NoReport
                             /\ pc' = "loaded"
    /\ UNCHANGED <<widgets, filtered_df, figs, summary, preview, raised, call>>

\* lines 206-213
Validate ==
    /\ pc = "loaded"
    /\ performed' = Append(performed, "schema")
    /\ IF missing_columns(df) # << >>
       THEN /\ report' = [kind |-> "error", text |-> "Missing required columns",
                          columns |-> missing_columns(df)]
            /\ pc' = "done"
       ELSE /\ report' = report
            /\ pc' = "validated"
    /\ UNCHANGED <<uploaded_file, df, widgets, filtered_df, figs, summary,
                   preview, raised, call>>

\* lines 215-284
ReadWidgets ==
    /\ pc = "validated"
    /\ \E s \in SliderOutcomes(SeriesMin(Column(df, "MI_with_condition")),
                               SeriesMax(Column(df, "MI_with_condition"))),
          pv \in PvalGrid,
          genes \in Multiselect(Range(df.index)),
          show \in BOOLEAN :
         IF s.exc # ""
         THEN /\ raised' = Raise(s.exc, "widgets")
              /\ widgets' = widgets
              /\ pc' = "done"
         ELSE /\ raised' = raised
              /\ widgets' = [mi_min |-> s.value, pval_max |-> pv,
                             genes_to_annotate |-> IF show THEN genes ELSE NoGenes,
                             show_annotations |-> show]
              /\ pc' = "widgets"
    /\ performed' = Append(performed, "widgets")
    /\ UNCHANGED <<uploaded_file, df, report, filtered_df, figs, summary,
                   preview, call>>

\* lines 286-292
Filter ==
    /\ pc = "widgets"
    /\ LET r == ApplyFilters(df, widgets.mi_min, widgets.pval_max)
       IN  IF r.exc # ""
           THEN /\ raised' = Raise(r.exc, "filter")
                /\ filtered_df' = filtered_df
                /\ performed' = performed
                /\ pc' = "done"
           ELSE /\ raised' = raised
                /\ filtered_df' = r.table
                /\ performed' = Append(performed, "filter")
                /\ pc' = "filtered"
    /\ UNCHANGED <<uploaded_file, df, report, widgets, figs, summary, preview, call>>

\* lines 294-329
Plot ==
    /\ pc = "filtered"
    /\ LET r == ScatterPlots(filtered_df, widgets.genes_to_annotate)
       IN  /\ figs' = r.figs
           /\ raised' = IF r.exc # "" THEN Raise(r.exc, "plots") ELSE raised
           /\ pc' = IF r.exc # "" THEN "done" ELSE "plotted"
    /\ performed' = Append(performed, "plots")
    /\ UNCHANGED <<uploaded_file, df, report, widgets, filtered_df, summary,
                   preview, call>>

\* lines 331-345
Summarise ==
    /\ pc = "plotted"
    /\ \E o \in SummaryOutcomes(filtered_df, df) :
         /\ summary' = o.summary
         /\ raised' = IF o.exc # "" THEN Raise(o.exc, "summary") ELSE raised
         /\ pc' = IF o.exc # "" THEN "done" ELSE "summarised"
    /\ performed' = Append(performed, "summary")
    /\ UNCHANGED <<uploaded_file, df, report, widgets, filtered_df, figs,
                   preview, call>>

\* lines 347-349
Preview ==
    /\ pc = "summarised"
    /\ preview' = DataFrameHead(filtered_df, PreviewRows)
    /\ performed' = Append(performed, "preview")
    /\ pc' = "done"
    /\ UNCHANGED <<uploaded_file, df, report, widgets, filtered_df, figs,
                   summary, raised, call>>

Next ==
    \/ Load
    \/ Validate
    \/ ReadWidgets
    \/ Filter
    \/ Plot
    \/ Summarise
    \/ Preview

Spec == Init /\ [][Next]_vars

(***************************************************************************)
(* Regulation-direction selector of the Filter Engine (section 4.3 of the  *)
(* specification), applied to the output of the threshold filter.          *)
(***************************************************************************)
Regulations == {"Both", "UpOnly", "DownOnly"}

\* g goes behind every key that sorts before or with it (stable)
InsertSorted(t, sorted, g, descending) ==
    LET fc(k) == t.data[k]["avg_log2FC"]
        Stays(k) == IF descending THEN fc(k) >= fc(g) ELSE fc(k) <= fc(g)
        n == Cardinality({i \in 1..Len(sorted) : \A j \in 1..i : Stays(sorted[j])})
    IN  SubSeq(sorted, 1, n) \o <<g>> \o SubSeq(sorted, n + 1, Len(sorted))

RECURSIVE SortIndex(_, _, _)
SortIndex(t, n, descending) ==
    IF n = 0 THEN NoGenes
    ELSE InsertSorted(t, SortIndex(t, n - 1, descending), t.index[n], descending)

SortByLog2FC(t, descending) ==
    [t EXCEPT !.index = SortIndex(t, Len(t.index), descending)]

ApplyRegulation(t, regulation) ==
    CASE regulation = "UpOnly" ->
           SortByLog2FC(Take(t, {g \in Range(t.index) :
                                   Gt(t.data[g]["avg_log2FC"], 0)}), TRUE)
      [] regulation = "DownOnly" ->
           SortByLog2FC(Take(t, {g \in Range(t.index) :
                                   Gt(0, t.data[g]["avg_log2FC"])}), FALSE)
      [] OTHER -> t

FilterEngine(t, mi_min, pval_max, regulation) ==
    ApplyRegulation(FilterRows(t, mi_min, pval_max), regulation)

(***************************************************************************)
(* The builders and the Filter Engine called on their own, on every table  *)
(* and argument list of the sets below.                                    *)
(***************************************************************************)
RequestedGenes == Range(SubSeq(GeneNames, 1, MaxRows)) \cup {"Z"}

GeneLists == {NoneList} \cup {List(l) : l \in ListsOver(RequestedGenes, MaxRows)}

HighlightRows ==
    {AuxRow(1, 3, 0, 10, 20), AuxRow(2, 4, 1, 10, 20), AuxRow(1, 5, 2, 10, 20),
     AuxRow(2, 3, NaN, 10, 20)}

EngineRows == RowVals \cup {MkRow(1, 0, -2, 1)}

PctRows == {AuxRow(1, 1, 0, 10, 20), AuxRow(1, 1, 0, 30, 20), AuxRow(1, 1, 0, 10, 10)}

TablesOf(rowvals, colsets) ==
    UNION {{DataFrame(cols, SubSeq(GeneNames, 1, n), rows) :
              cols \in colsets,
              rows \in [Range(SubSeq(GeneNames, 1, n)) -> rowvals]} :
           n \in 0..MaxRows}

HighlightTables ==
    TablesOf(HighlightRows,
             {AuxColumns, AuxColumns \ {"is_mitocarta"}, AuxColumns \ {"Il6"}})

MitocartaTables ==
    TablesOf(RowVals,
             {BaseColumns, BaseColumns \ {"is_mitocarta"}, BaseColumns \ {"pct.1"}})

PctTables ==
    TablesOf(PctRows, {AuxColumns, AuxColumns \ {"pct.1"}, AuxColumns \ {"pct.2"}})

Pending(fn, t) == [NoCall EXCEPT !.fn = fn, !.status = "pending", !.df = t]

\* the calls the model makes, each with its arguments
IsPendingCall(c) ==
    \/ \E t \in MitocartaTables, g \in GeneLists :
         c = [Pending("create_mitocarta_scatter", t) EXCEPT !.genes = g]
    \/ \E t \in HighlightTables, g \in GeneLists,
          b \in {NoneColumn, "is_mitocarta", "is_up"},
          y \in {"avg_log2FC_N6", "p_val_adj_log10_N6"} :
         c = [Pending("scatter_highlight", t) EXCEPT
                !.genes = g, !.binary_column = b, !.x = "MI_with_condition",
                !.y = y]
    \/ \E t \in PctTables : c = Pending("create_volcano_pct_ratio_scatter", t)
    \/ \E t \in TablesOf(EngineRows, {BaseColumns}), m \in {1, 2, NaN},
          pv \in PvalGrid, r \in Regulations :
         c = [Pending("FilterEngine", t) EXCEPT
                !.mi_min = m, !.pval_max = pv, !.regulation = r]

InitCalls ==
    /\ pc = "call"
    /\ uploaded_file = NoFile
    /\ df = NoneDF
    /\ report = NoReport
    /\ widgets = NoWidgets
    /\ filtered_df = NoneDF
    /\ figs = << >>
    /\ summary = NoSummary
    /\ preview = NoneDF
    /\ raised = NoRaise
    /\ performed = << >>
    /\ IsPendingCall(call)

Return(r) ==
    /\ call' = [call EXCEPT !.status = IF r.exc # "" THEN "raised" ELSE "returned",
                            !.result = r]
    /\ UNCHANGED <<pc, uploaded_file, df, report, widgets, filtered_df, figs,
                   summary, preview, raised, performed>>

CallMitocartaScatter ==
    /\ call.status = "pending"
    /\ call.fn = "create_mitocarta_scatter"
    /\ Return(create_mitocarta_scatter(call.df, call.genes))

CallScatterHighlight ==
    /\ call.status = "pending"
    /\ call.fn = "scatter_highlight"
    /\ Return(scatter_highlight(call.df, call.genes, call.binary_column,
                                call.y, call.x))

CallVolcanoMinPct ==
    /\ call.status = "pending"
    /\ call.fn = "create_volcano_pct_ratio_scatter"
    /\ Return(aux_create_volcano_pct_ratio_scatter(call.df))

CallFilterEngine ==
    /\ call.status = "pending"
    /\ call.fn = "FilterEngine"
    /\ Return([NoResult EXCEPT !.out =
                 FilterEngine(call.df, call.mi_min, call.pval_max, call.regulation)])

NextCalls ==
    \/ CallMitocartaScatter
    \/ CallScatterHighlight
    \/ CallVolcanoMinPct
    \/ CallFilterEngine

SpecCalls == InitCalls /\ [][NextCalls]_vars

(***************************************************************************)
(* Properties of the rendering pass.                                       *)
(***************************************************************************)
Done(step) == step \in Range(performed)

Genes(t) == Range(t.index)

Position(seq, e) == CHOOSE i \in 1..Len(seq) : seq[i] = e

NothingRendered ==
    /\ widgets = NoWidgets
    /\ filtered_df = NoneDF
    /\ figs = << >>
    /\ summary = NoSummary
    /\ preview = NoneDF

\* C1: once main has computed filtered_df, its rows are exactly the rows of
\* the loaded table with MI >= mi_min and adjusted p-value <= pval_max (both
\* inclusive), each once and with its cells unchanged.
C1_FilterExact ==
    Done("filter") =>
        /\ ~filtered_df.isNone
        /\ filtered_df.columns = df.columns
        /\ Genes(filtered_df) \subseteq Genes(df)
        /\ Len(filtered_df.index) = Cardinality(Genes(filtered_df))
        /\ \A g \in Genes(df) :
             g \in Genes(filtered_df) <=>
                /\ df.data[g]["MI_with_condition"] # NaN
                /\ widgets.mi_min # NaN
                /\ df.data[g]["MI_with_condition"] >= widgets.mi_min
                /\ df.data[g]["p_val_adj"] # NaN
                /\ df.data[g]["p_val_adj"] <= widgets.pval_max
        /\ \A g \in Genes(filtered_df) : filtered_df.data[g] = df.data[g]

\* a row sitting on both bounds is kept while another row is dropped
C1_Witness ==
    /\ Done("filter")
    /\ \E g \in Genes(filtered_df) :
         /\ df.data[g]["MI_with_condition"] = widgets.mi_min
         /\ df.data[g]["p_val_adj"] = widgets.pval_max
    /\ \E g \in Genes(df) : g \notin Genes(filtered_df)

\* C2: a row whose adjusted p-value is missing counts as p = 1.0 in the
\* filter: with its MI at or above mi_min it is dropped when pval_max < 1.0
\* and kept when pval_max = 1.0.
C2_MissingPvalIsOne ==
    Done("filter") =>
        \A g \in Genes(df) :
            (IsNaN(df.data[g]["p_val_adj"])
               /\ Ge(df.data[g]["MI_with_condition"], widgets.mi_min))
            => /\ widgets.pval_max < PvalOne => g \notin Genes(filtered_df)
               /\ widgets.pval_max = PvalOne => g \in Genes(filtered_df)

\* C3: the schema check reports exactly the absent required columns, in the
\* order of the required list, and main then stops with nothing filtered,
\* plotted, summarised or previewed; with no column absent the pass goes on.
C3_SchemaCheck ==
    Done("schema") =>
        LET absent == {c \in Range(required_columns) : c \notin df.columns}
        IN  /\ absent # {} =>
                  /\ report.kind = "error"
                  /\ Range(report.columns) = absent
                  /\ Len(report.columns) = Cardinality(absent)
                  /\ \A i, j \in 1..Len(report.columns) :
                        i < j => Position(required_columns, report.columns[i])
                                   < Position(required_columns, report.columns[j])
                  /\ pc = "done"
                  /\ performed = <<"load_data", "schema">>
                  /\ NothingRendered
            /\ absent = {} =>
                  /\ report = NoReport
                  /\ pc = "validated" \/ Done("widgets")

\* two required columns are absent and both are reported
C3_Witness ==
    /\ Done("schema")
    /\ Len(report.columns) = 2
    /\ pc = "done"

\* C4: after the schema check has passed and the sliders have given their
\* thresholds, the threshold filter, the five plot builders, the summary and
\* the preview raise no error.
C4_NoErrorAfterSchema ==
    (Done("schema") /\ report.kind # "error" /\ ~IsNaN(widgets.mi_min)) =>
        raised.step \notin {"filter", "plots", "summary", "preview"}

\* C5: when the thresholds select zero rows the pass ends without an error,
\* with five charts without points, the summary and the preview.
C5_EmptySelection ==
    (/\ Done("filter")
     /\ ~IsNaN(widgets.mi_min)
     /\ Len(filtered_df.index) = 0
     /\ pc = "done") =>
        /\ raised = NoRaise
        /\ Len(figs) = 5
        /\ \A i \in 1..Len(figs) : Len(figs[i].points) = 0
        /\ ~summary.isNone
        /\ ~preview.isNone

\* C10: when loading fails, load_data reports an error and returns None,
\* and main does no schema check, filter, chart, summary or preview.
C10_LoadFailure ==
    (uploaded_file.kind = "unreadable" /\ pc # "start") =>
        /\ df.isNone
        /\ report.kind = "error"
        /\ report.text = "Error loading file"
        /\ pc = "done"
        /\ performed = <<"load_data">>
        /\ raised = NoRaise
        /\ NothingRendered

\* the upload could not be read and the pass is over
C10_Witness ==
    /\ uploaded_file.kind = "unreadable"
    /\ pc = "done"
    /\ Done("load_data")

(***************************************************************************)
(* Properties of the builders and of the Filter Engine.                    *)
(***************************************************************************)
Called(fn) == call.fn = fn /\ call.status # "pending"

CallX == IF call.fn = "scatter_highlight" THEN call.x ELSE "MI_with_condition"

CallY == IF call.fn = "scatter_highlight" THEN call.y ELSE "avg_log2FC"

Requested == IF call.genes.isNone THEN DefaultGenes ELSE call.genes.list

\* C6: once the chart is built, the annotation loop gives one anchor
\* (x, y, text = gene) for each requested gene that is a key of the table, at
\* that gene's own x and y, none for a requested gene that is not a key, and
\* raises nothing.  (create_mitocarta_scatter requests its default list when
\* no list is passed; scatter_highlight is taken with a list.)
C6_AnnotationOverlay ==
    (/\ Called("create_mitocarta_scatter") \/ Called("scatter_highlight")
     /\ call.result.overlay
     /\ ~(call.fn = "scatter_highlight" /\ call.genes.isNone)) =>
        LET found == SelectSeq(Requested, LAMBDA g : g \in Genes(call.df))
            anchors == call.result.fig.annotations
        IN  /\ call.status = "returned"
            /\ Len(anchors) = Len(found)
            /\ \A i \in 1..Len(found) :
                 /\ anchors[i].text = found[i]
                 /\ anchors[i].x = call.df.data[found[i]][CallX]
                 /\ anchors[i].y = call.df.data[found[i]][CallY]

\* a request for one gene of the table and one gene outside it gives one anchor
C6_Witness ==
    /\ Called("create_mitocarta_scatter") \/ Called("scatter_highlight")
    /\ call.status = "returned"
    /\ ~call.genes.isNone
    /\ \E i \in 1..Len(call.genes.list) : call.genes.list[i] \in Genes(call.df)
    /\ \E i \in 1..Len(call.genes.list) : call.genes.list[i] \notin Genes(call.df)
    /\ Len(call.result.fig.annotations) = 1

HighlightColumn ==
    IF call.fn = "create_mitocarta_scatter" \/ call.binary_column = NoneColumn
    THEN "is_mitocarta" ELSE call.binary_column

HighlightLabel ==
    IF call.fn = "create_mitocarta_scatter" THEN "MitoCarta" ELSE HighlightColumn

\* C7: in discrete highlight mode every row gets the highlight category when
\* the highlight column exists and the row's value in it is 1, and "Other"
\* in every other case, an absent highlight column included.
C7_TwoCategories ==
    (Called("create_mitocarta_scatter") \/ Called("scatter_highlight")) =>
        /\ call.result.categorised
        /\ Len(call.result.category) = Len(call.df.index)
        /\ \A i \in 1..Len(call.result.category) :
             call.result.category[i] =
                IF /\ HighlightColumn \in call.df.columns
                   /\ call.df.data[call.df.index[i]][HighlightColumn] = 1
                THEN HighlightLabel ELSE "Other"

C9_MinPct ==
    (/\ Called("create_volcano_pct_ratio_scatter")
     /\ {"pct.1", "pct.2"} \subseteq call.df.columns) =>
        LET out == call.result.out
        IN  /\ "min_pct" \in out.columns
            /\ \A g \in Genes(call.df) :
                 out.data[g]["min_pct"] =
                    IF call.df.data[g]["pct.1"] <= call.df.data[g]["pct.2"]
                    THEN call.df.data[g]["pct.1"] ELSE call.df.data[g]["pct.2"]

====
